---- MODULE Spec2Model ----
(***************************************************************************)
(* Flight-management command-line tool (src/main.py) over the SQLite store *)
(* that src/populate_db.py creates.  The state is the five tables, the     *)
(* position of main()'s menu loop, and what the last handler read from the *)
(* operator and printed.  Text is a sequence of one-character strings, so  *)
(* that strip(), upper(), isdigit(), int(), substr() and the ORDER BY      *)
(* comparison are computed, not assumed.                                   *)
(***************************************************************************)
EXTENDS Integers, Sequences, FiniteSets, TLC

VARIABLES
    db_exists,         \* DB_FILE.exists() at startup
    pc,                \* position of main(): "start", "menu" (reading the choice), "handled" (the
                       \* handler has returned), "exited", "crashed"
    destination,       \* table destination
    aircraft,          \* table aircraft
    pilot,             \* table pilot
    flight,            \* table flight
    pilot_assignment,  \* table pilot_assignment
    last,              \* the last handler run: its name, the raw inputs it read, what it printed
    rows               \* what the last handler passed to print_rows (empty when it printed no rows)

vars == <<db_exists, pc, destination, aircraft, pilot, flight, pilot_assignment, last, rows>>
tables == <<destination, aircraft, pilot, flight, pilot_assignment>>

----------------------------------------------------------------------------
(* Bounds of the model *)

\* most rows the flight table holds (add_flight is not offered beyond it)
MaxFlights == 3
\* most rows the pilot_assignment table holds
MaxAssign == 3

----------------------------------------------------------------------------
(* Text: Python str / SQLite TEXT as sequences of characters *)

\* the characters used, in code-point order
Alphabet ==
    <<" ", "+", "-", ".", "0", "1", "2", "3", "4", "5", "6", "7", "8", "9", ":",
      "A", "B", "C", "D", "E", "F", "G", "H", "I", "J", "K", "L", "M",
      "N", "O", "P", "Q", "R", "S", "T", "U", "V", "W", "X", "Y", "Z",
      "a", "b", "c", "d", "e", "f", "g", "h", "i", "j", "k", "l", "m",
      "n", "o", "p", "q", "r", "s", "t", "u", "v", "w", "x", "y", "z">>

Digits == <<"0", "1", "2", "3", "4", "5", "6", "7", "8", "9">>
UpperCase == SubSeq(Alphabet, 16, 41)
LowerCase == SubSeq(Alphabet, 42, 67)

Range(s) == {s[i] : i \in DOMAIN s}
IndexOf(c, s) == CHOOSE i \in DOMAIN s : s[i] = c

Characters == Range(Alphabet)
DigitCharacters == Range(Digits)

\* position of a character in code-point order (what a bytewise comparison compares)
OrdTable == [c \in Characters |-> IndexOf(c, Alphabet)]
Ord(c) == OrdTable[c]

\* SQL NULL / Python None
None == <<"NULL">>

\* str.upper(), one character
UpperTable ==
    [c \in Characters |-> IF c \in Range(LowerCase) THEN UpperCase[IndexOf(c, LowerCase)] ELSE c]
UpperChar(c) == UpperTable[c]

\* str.upper()
upper(s) == [i \in DOMAIN s |-> UpperChar(s[i])]

RECURSIVE lstrip(_)
lstrip(s) == IF s # <<>> /\ Head(s) = " " THEN lstrip(Tail(s)) ELSE s

RECURSIVE rstrip(_)
rstrip(s) == IF s # <<>> /\ s[Len(s)] = " " THEN rstrip(SubSeq(s, 1, Len(s) - 1)) ELSE s

\* str.strip()
strip(s) == rstrip(lstrip(s))

\* str.isdigit()
isdigit(s) == s # <<>> /\ \A i \in DOMAIN s : s[i] \in DigitCharacters

RECURSIVE DigitsValue(_)
DigitsValue(s) ==
    IF s = <<>> THEN 0
    ELSE 10 * DigitsValue(SubSeq(s, 1, Len(s) - 1)) + (IndexOf(s[Len(s)], Digits) - 1)

\* the text is an integer literal: an optional sign, then digits
IsIntLiteral(s) ==
    LET body == IF s # <<>> /\ Head(s) \in {"+", "-"} THEN Tail(s) ELSE s
    IN  isdigit(body)

IntLiteralValue(s) ==
    IF Head(s) = "-" THEN 0 - DigitsValue(Tail(s))
    ELSE IF Head(s) = "+" THEN DigitsValue(Tail(s))
    ELSE DigitsValue(s)

\* int(text): whether it raises ValueError, and its value when it does not
int_raises(s) == ~IsIntLiteral(strip(s))
int(s) == IntLiteralValue(strip(s))

\* SQLite comparing an INTEGER column with a bound TEXT parameter: the text is
\* converted when it is a well-formed integer literal, and otherwise equals no integer
IntegerEqText(n, s) == IsIntLiteral(s) /\ IntLiteralValue(s) = n

\* SQLite substr(x, 1, n)
substr1(s, n) == SubSeq(s, 1, IF Len(s) < n THEN Len(s) ELSE n)

\* length of the "YYYY-MM-DD" prefix of departure_dt
DayLen == 10

\* bytewise order of two texts (SQLite BINARY collation): a <= b
RECURSIVE TextLeqFrom(_, _, _)
TextLeqFrom(a, b, i) ==
    IF i > Len(a) THEN TRUE
    ELSE IF i > Len(b) THEN FALSE
    ELSE IF a[i] = b[i] THEN TextLeqFrom(a, b, i + 1)
    ELSE Ord(a[i]) < Ord(b[i])

TextLeq(a, b) == TextLeqFrom(a, b, 1)

----------------------------------------------------------------------------
(* Texts stored by populate_db.py (a scaled-down seed) and typed by the operator *)

LHR == <<"L", "H", "R">>
CDG == <<"C", "D", "G">>
SGN == <<"S", "G", "N">>
REG1 == <<"G", "-", "A", "X", "0", "1">>
REG2 == <<"G", "-", "A", "X", "0", "2">>
LIC1 == <<"L", "I", "C", "-", "U", "K", "-", "1", "0", "0", "1">>
LIC2 == <<"L", "I", "C", "-", "U", "K", "-", "1", "0", "0", "2">>
LIC3 == <<"L", "I", "C", "-", "I", "T", "-", "2", "0", "0", "1">>
Scheduled == <<"S", "c", "h", "e", "d", "u", "l", "e", "d">>
Cancelled == <<"C", "a", "n", "c", "e", "l", "l", "e", "d">>
Delayed == <<"D", "e", "l", "a", "y", "e", "d">>
Captain == <<"C", "a", "p", "t", "a", "i", "n">>
FirstOfficer == <<"F", "i", "r", "s", "t", " ", "O", "f", "f", "i", "c", "e", "r">>
AX200 == <<"A", "X", "2", "0", "0">>
AX201 == <<"A", "X", "2", "0", "1">>
DEP0 == <<"2", "0", "2", "6", "-", "0", "2", "-", "0", "3", " ", "0", "6", ":", "0", "0">>
ARR0 == <<"2", "0", "2", "6", "-", "0", "2", "-", "0", "3", " ", "0", "8", ":", "0", "0">>
DEP1 == <<"2", "0", "2", "6", "-", "0", "2", "-", "0", "3", " ", "0", "9", ":", "0", "0">>
ARR1 == <<"2", "0", "2", "6", "-", "0", "2", "-", "0", "3", " ", "1", "1", ":", "0", "0">>
DAY3 == <<"2", "0", "2", "6", "-", "0", "2", "-", "0", "3">>
DAY4 == <<"2", "0", "2", "6", "-", "0", "2", "-", "0", "4">>
YES == <<"Y", "E", "S">>
A1 == <<"A", "1">>
T1 == <<"T", "1">>

in_blank == <<>>
in_spaces == <<" ", " ">>
in_lhr == <<" ", "l", "h", "r">>
in_cdg == <<"c", "d", "g">>
in_xxx == <<"X", "X", "X">>
in_reg1 == <<"g", "-", "a", "x", "0", "1">>
in_regx == <<"G", "-", "Z", "Z", "9", "9">>
in_lic1 == <<"l", "i", "c", "-", "u", "k", "-", "1", "0", "0", "1">>
in_lic3 == <<"L", "I", "C", "-", "I", "T", "-", "2", "0", "0", "1", " ">>
in_licx == <<"L", "I", "C", "-", "X", "X", "-", "0", "0", "0", "0">>
in_delayed == <<" ", "D", "e", "l", "a", "y", "e", "d", " ">>
in_ax999 == <<"a", "x", "9", "9", "9">>
in_dep_early == <<"2", "0", "2", "6", "-", "0", "2", "-", "0", "2", " ", "2", "3", ":", "1", "5">>
in_arr == <<"2", "0", "2", "6", "-", "0", "2", "-", "0", "4", " ", "0", "1", ":", "0", "0">>
in_yes == <<" ", "y", "e", "s", " ">>
in_no == <<"n", "o">>
in_a1 == <<"a", "1">>
in_id02 == <<"0", "2">>
in_id3 == <<"3">>
in_idx == <<"x">>
in_minus1 == <<"-", "1">>
in_abc == <<"a", "b", "c">>
in_flag0 == <<"0">>
in_flag1 == <<"1", " ">>
in_flag2 == <<"2">>

----------------------------------------------------------------------------
(* The store.  src/ holds no schema.sql: the columns are those the statements *)
(* of main.py and populate_db.py name, the constraints those the data model   *)
(* of the specification states.                                               *)

\* rows of a table as a set of records; the primary key is the first field
MaxId(table, key) == IF table = {} THEN 0 ELSE CHOOSE m \in {r[key] : r \in table} : \A r \in table : r[key] <= m

\* INTEGER PRIMARY KEY given no value: one more than the largest rowid in the table
NextRowId(table, key) == MaxId(table, key) + 1

\* the ids of a set of rows, ascending (ORDER BY pilot_id)
RECURSIVE AscendingIds(_)
AscendingIds(ids) ==
    IF ids = {} THEN <<>>
    ELSE LET m == CHOOSE x \in ids : \A y \in ids : x <= y
         IN  <<m>> \o AscendingIds(ids \ {m})

\* foreign keys of flight (PRAGMA foreign_keys = ON): origin, destination and aircraft exist
FlightReferencesResolve(f) ==
    /\ \E o \in destination : o.destination_id = f.origin_id
    /\ \E d \in destination : d.destination_id = f.destination_id
    /\ \E a \in aircraft : a.aircraft_id = f.aircraft_id

\* what the store checks on a flight row: the references resolve and tickets sold is not negative
FlightRowAccepted(f) == FlightReferencesResolve(f) /\ f.tickets_sold >= 0

\* a flight row that a pilot_assignment row references cannot be deleted
FlightDeleteAccepted(f) == \A pa \in pilot_assignment : pa.flight_id # f.flight_id

\* foreign keys of pilot_assignment: the flight and the pilot exist
AssignmentRowAccepted(pa) ==
    /\ \E f \in flight : f.flight_id = pa.flight_id
    /\ \E p \in pilot : p.pilot_id = pa.pilot_id

----------------------------------------------------------------------------
(* populate_db.py, scaled down: three destinations, two aircraft, three pilots *)

SeedDestinations ==
    { [destination_id |-> 1, iata_code |-> LHR, active |-> 1],
      [destination_id |-> 2, iata_code |-> CDG, active |-> 1],
      [destination_id |-> 3, iata_code |-> SGN, active |-> 0] }

SeedAircraft ==
    { [aircraft_id |-> 1, registration |-> REG1, seat_capacity |-> 180],
      [aircraft_id |-> 2, registration |-> REG2, seat_capacity |-> 189] }

\* the pilots; like destination SGN, the last one is the inactive edge case
SeedPilots ==
    { [pilot_id |-> 1, license_no |-> LIC1, rank |-> Captain, base_destination_id |-> 1, active |-> 1],
      [pilot_id |-> 2, license_no |-> LIC2, rank |-> FirstOfficer, base_destination_id |-> 1, active |-> 1],
      [pilot_id |-> 3, license_no |-> LIC3, rank |-> Captain, base_destination_id |-> 2, active |-> 0] }

\* one flight per aircraft, three hours apart, the last one cancelled
SeedFlights ==
    { [flight_id |-> 1, flight_no |-> AX200, origin_id |-> 1, destination_id |-> 2, aircraft_id |-> 1,
       departure_dt |-> DEP0, arrival_dt |-> ARR0, status |-> Scheduled,
       terminal |-> T1, gate |-> A1, tickets_sold |-> 120, notes |-> None],
      [flight_id |-> 2, flight_no |-> AX201, origin_id |-> 2, destination_id |-> 1, aircraft_id |-> 2,
       departure_dt |-> DEP1, arrival_dt |-> ARR1, status |-> Cancelled,
       terminal |-> None, gate |-> None, tickets_sold |-> 0, notes |-> None] }

\* flights in ORDER BY departure_dt (the seed's departure times are distinct)
RECURSIVE ByDeparture(_)
ByDeparture(fs) ==
    IF fs = {} THEN <<>>
    ELSE LET m == CHOOSE x \in fs : \A y \in fs : TextLeq(x.departure_dt, y.departure_dt)
         IN  <<m>> \o ByDeparture(fs \ {m})

\* one captain and one first officer, among the active pilots, per flight that is not cancelled
SeedAssignments(pilots, flights) ==
    LET captains == AscendingIds({p.pilot_id : p \in {q \in pilots : q.active = 1 /\ q.rank = Captain}})
        fos == AscendingIds({p.pilot_id : p \in {q \in pilots : q.active = 1 /\ q.rank = FirstOfficer}})
        flying == SelectSeq(ByDeparture(flights), LAMBDA f : f.status # Cancelled)
    IN  UNION { { [assignment_id |-> 2 * k - 1, flight_id |-> flying[k].flight_id,
                   pilot_id |-> captains[((k - 1) % Len(captains)) + 1], role |-> Captain],
                  [assignment_id |-> 2 * k, flight_id |-> flying[k].flight_id,
                   pilot_id |-> fos[((k - 1) % Len(fos)) + 1], role |-> FirstOfficer] }
                : k \in DOMAIN flying }

NoHandler == [op |-> "none", out |-> "none"]

Init ==
    /\ db_exists \in BOOLEAN
    /\ pc = "start"
    /\ destination = SeedDestinations
    /\ aircraft = SeedAircraft
    /\ pilot = SeedPilots
    /\ flight = SeedFlights
    /\ pilot_assignment = SeedAssignments(pilot, flight)
    /\ last = NoHandler
    /\ rows = <<>>

\* a handler that prints a message and leaves the store alone
Report(op, out) ==
    /\ last' = [op |-> op, out |-> out]
    /\ rows' = <<>>
    /\ pc' = "handled"
    /\ UNCHANGED <<db_exists, tables>>

\* an exception no handler catches: the traceback ends the program
Crash(op, exception) ==
    /\ pc' = "crashed"
    /\ last' = [op |-> op, out |-> exception]
    /\ rows' = <<>>
    /\ UNCHANGED <<db_exists, tables>>

\* what print_rows prints: a table, or "(no results)"
Printed(result) == IF result = <<>> THEN "(no results)" ELSE "rows"

\* print_rows(rows)
print_rows(op, result) ==
    /\ rows' = result
    /\ last' = [op |-> op, out |-> Printed(result)]

----------------------------------------------------------------------------
(* main(): startup, menu loop *)

\* main() before the loop: without the database file it prints how to create it and returns
Startup ==
    /\ pc = "start"
    /\ pc' = IF db_exists THEN "menu" ELSE "exited"
    /\ last' = [op |-> "main", out |-> IF db_exists THEN "=== MENU ===" ELSE "Database not found"]
    /\ rows' = <<>>
    /\ UNCHANGED <<db_exists, tables>>

\* top of the while loop: the menu is printed and the next choice is read
MenuLoop ==
    /\ pc = "handled"
    /\ pc' = "menu"
    /\ last' = [op |-> "main", out |-> "=== MENU ==="]
    /\ rows' = <<>>
    /\ UNCHANGED <<db_exists, tables>>

\* choice "0": break, close, Goodbye
Exit ==
    /\ pc = "menu"
    /\ pc' = "exited"
    /\ last' = [op |-> "exit", out |-> "Goodbye!"]
    /\ rows' = <<>>
    /\ UNCHANGED <<db_exists, tables>>

\* any choice that is no menu number
UnknownChoice ==
    /\ pc = "menu"
    /\ Report("unknown", "Please choose")

----------------------------------------------------------------------------
(* run_flight_query and the four handlers that call it *)

\* FROM flight f JOIN destination o ON ... JOIN destination d ON ...
FlightJoin ==
    UNION { { [f |-> f, o |-> o, d |-> d] :
                o \in {x \in destination : x.destination_id = f.origin_id},
                d \in {x \in destination : x.destination_id = f.destination_id} }
            : f \in flight }

\* the SELECT list
SelectColumns(j) ==
    [flight_id |-> j.f.flight_id, flight_no |-> j.f.flight_no, origin |-> j.o.iata_code,
     destination |-> j.d.iata_code, departure_dt |-> j.f.departure_dt, status |-> j.f.status]

\* the conditions list and the params list, built together
QueryConditions(dest, status, date) ==
    (IF dest # <<>> THEN << <<"d.iata_code = ?", dest>> >> ELSE <<>>)
    \o (IF status # <<>> THEN << <<"f.status = ?", status>> >> ELSE <<>>)
    \o (IF date # <<>> THEN << <<"substr(f.departure_dt,1,10) = ?", date>> >> ELSE <<>>)

\* ConditionHolds with the date compared to the whole timestamp, not to its first ten characters
ConditionHolds_fullTimestamp(cond, j) ==
    CASE cond[1] = "d.iata_code = ?" -> j.d.iata_code = cond[2]
      [] cond[1] = "f.status = ?" -> j.f.status = cond[2]
      [] cond[1] = "substr(f.departure_dt,1,10) = ?" -> j.f.departure_dt = cond[2]

\* one condition on one joined row
ConditionHolds(cond, j) ==
    CASE cond[1] = "d.iata_code = ?" -> j.d.iata_code = cond[2]
      [] cond[1] = "f.status = ?" -> j.f.status = cond[2]
      [] cond[1] = "substr(f.departure_dt,1,10) = ?" -> substr1(j.f.departure_dt, DayLen) = cond[2]

\* WhereClause with the conditions joined by OR
WhereClause_joinedByOr(conds, j) == conds = <<>> \/ \E i \in DOMAIN conds : ConditionHolds(conds[i], j)

\* WHERE c1 AND c2 ...; no WHERE clause when the list is empty
WhereClause(conds, j) == \A i \in DOMAIN conds : ConditionHolds(conds[i], j)

\* OrderByText with ORDER BY ... DESC
RECURSIVE OrderByText_descending(_, _)
OrderByText_descending(rs, col) ==
    IF rs = {} THEN {<<>>}
    ELSE UNION { { <<m>> \o rest : rest \in OrderByText_descending(rs \ {m}, col) }
                 : m \in {x \in rs : \A y \in rs : TextLeq(y[col], x[col])} }

\* ORDER BY a text column: every order of the rows that is ascending by it
\* (rows equal in the column come in an order SQLite does not specify)
RECURSIVE OrderByText(_, _)
OrderByText(rs, col) ==
    IF rs = {} THEN {<<>>}
    ELSE UNION { { <<m>> \o rest : rest \in OrderByText(rs \ {m}, col) }
                 : m \in {x \in rs : \A y \in rs : TextLeq(x[col], y[col])} }

\* the result sets run_flight_query can print
FlightQueryResults(dest, status, date) ==
    OrderByText({ SelectColumns(j) : j \in {x \in FlightJoin : WhereClause(QueryConditions(dest, status, date), x)} },
                "departure_dt")

\* last also keeps the three criteria the query was called with
run_flight_query(op, dest, status, date) ==
    /\ \E result \in FlightQueryResults(dest, status, date) :
          /\ rows' = result
          /\ last' = [op |-> op, out |-> Printed(result), dest |-> dest, status |-> status, date |-> date]
    /\ pc' = "handled"
    /\ UNCHANGED <<db_exists, tables>>

\* choice "1"
view_all_flights ==
    /\ pc = "menu"
    /\ run_flight_query("view_all_flights", <<>>, <<>>, <<>>)

\* choice "2"
view_flights_by_destination(dest_in) ==
    /\ pc = "menu"
    /\ LET dest == upper(strip(dest_in))
       IN  IF dest = <<>>
           THEN Report("view_flights_by_destination", "You did not type a destination.")
           ELSE run_flight_query("view_flights_by_destination", dest, <<>>, <<>>)

\* choice "3"
view_flights_by_destination_and_status(dest_in, status_in) ==
    /\ pc = "menu"
    /\ run_flight_query("view_flights_by_destination_and_status",
                        upper(strip(dest_in)), strip(status_in), <<>>)

\* choice "4"
view_flights_by_dest_status_date(dest_in, status_in, date_in) ==
    /\ pc = "menu"
    /\ run_flight_query("view_flights_by_dest_status_date",
                        upper(strip(dest_in)), strip(status_in), strip(date_in))

----------------------------------------------------------------------------
(* add_flight *)

add_flight(flight_no_in, origin_in, dest_in, reg_in, dep_in, arr_in, status_in, gate_in, tickets_in) ==
    /\ pc = "menu"
    /\ LET flight_no == upper(strip(flight_no_in))
           origin == upper(strip(origin_in))
           dest == upper(strip(dest_in))
           reg == upper(strip(reg_in))
           dep == strip(dep_in)
           arr == strip(arr_in)
           status == IF strip(status_in) = <<>> THEN Scheduled ELSE strip(status_in)
           gate == IF upper(strip(gate_in)) = <<>> THEN None ELSE upper(strip(gate_in))
           tickets_text == strip(tickets_in)
       IN  IF tickets_text # <<>> /\ int_raises(tickets_text)
           THEN Crash("add_flight", "ValueError")
           ELSE
             LET tickets_sold == IF tickets_text = <<>> THEN 0 ELSE int(tickets_text)
                 origin_row == {d \in destination : d.iata_code = origin}
                 dest_row == {d \in destination : d.iata_code = dest}
                 aircraft_row == {a \in aircraft : a.registration = reg}
             IN  IF origin_row = {} \/ dest_row = {} \/ aircraft_row = {}
                 THEN Report("add_flight", "ERROR: origin/destination/aircraft not found in database.")
                 ELSE
                   LET row == [flight_id |-> NextRowId(flight, "flight_id"),
                               flight_no |-> flight_no,
                               origin_id |-> (CHOOSE d \in origin_row : TRUE).destination_id,
                               destination_id |-> (CHOOSE d \in dest_row : TRUE).destination_id,
                               aircraft_id |-> (CHOOSE a \in aircraft_row : TRUE).aircraft_id,
                               departure_dt |-> dep, arrival_dt |-> arr, status |-> status,
                               terminal |-> None, gate |-> gate, tickets_sold |-> tickets_sold,
                               notes |-> None]
                   IN  IF FlightRowAccepted(row)
                       THEN /\ flight' = flight \cup {row}
                            /\ last' = [op |-> "add_flight", out |-> "OK: Flight added."]
                            /\ rows' = <<>>
                            /\ pc' = "handled"
                            /\ UNCHANGED <<db_exists, destination, aircraft, pilot, pilot_assignment>>
                       ELSE Report("add_flight", "ERROR: Could not add flight:")

----------------------------------------------------------------------------
(* update_flight_status *)

\* update_flight_status with the WHERE flight_id=? left out of the UPDATE
update_flight_status_noWhere(flight_id_in, new_status_in) ==
    /\ pc = "menu"
    /\ LET new_status == strip(new_status_in)
       IN  IF new_status = <<>>
           THEN Report("update_flight_status", "ERROR: status cannot be blank.")
           ELSE /\ flight' = { [f EXCEPT !.status = new_status] : f \in flight }
                /\ last' = [op |-> "update_flight_status", out |-> "OK: Status updated."]
                /\ rows' = <<>>
                /\ pc' = "handled"
                /\ UNCHANGED <<db_exists, destination, aircraft, pilot, pilot_assignment>>

update_flight_status(flight_id_in, new_status_in) ==
    /\ pc = "menu"
    /\ LET flight_id == strip(flight_id_in)
           new_status == strip(new_status_in)
       IN  IF new_status = <<>>
           THEN Report("update_flight_status", "ERROR: status cannot be blank.")
           ELSE /\ flight' = { IF IntegerEqText(f.flight_id, flight_id)
                               THEN [f EXCEPT !.status = new_status] ELSE f : f \in flight }
                /\ last' = [op |-> "update_flight_status", out |-> "OK: Status updated."]
                /\ rows' = <<>>
                /\ pc' = "handled"
                /\ UNCHANGED <<db_exists, destination, aircraft, pilot, pilot_assignment>>

----------------------------------------------------------------------------
(* delete_flight *)

\* delete_flight that cancels only on a blank confirmation
delete_flight_unconfirmed(flight_id_in, confirm_in) ==
    /\ pc = "menu"
    /\ LET flight_id == strip(flight_id_in)
           confirm == upper(strip(confirm_in))
       IN  IF confirm = <<>>
           THEN Report("delete_flight", "Delete cancelled.")
           ELSE LET target == {f \in flight : IntegerEqText(f.flight_id, flight_id)}
                IN  IF \A f \in target : FlightDeleteAccepted(f)
                    THEN /\ flight' = flight \ target
                         /\ last' = [op |-> "delete_flight", out |-> "OK: Flight deleted."]
                         /\ rows' = <<>>
                         /\ pc' = "handled"
                         /\ UNCHANGED <<db_exists, destination, aircraft, pilot, pilot_assignment>>
                    ELSE Report("delete_flight", "ERROR: Delete failed:")

delete_flight(flight_id_in, confirm_in) ==
    /\ pc = "menu"
    /\ LET flight_id == strip(flight_id_in)
           confirm == upper(strip(confirm_in))
       IN  IF confirm # YES
           THEN Report("delete_flight", "Delete cancelled.")
           ELSE LET target == {f \in flight : IntegerEqText(f.flight_id, flight_id)}
                IN  IF \A f \in target : FlightDeleteAccepted(f)
                    THEN /\ flight' = flight \ target
                         /\ last' = [op |-> "delete_flight", out |-> "OK: Flight deleted."]
                         /\ rows' = <<>>
                         /\ pc' = "handled"
                         /\ UNCHANGED <<db_exists, destination, aircraft, pilot, pilot_assignment>>
                    ELSE Report("delete_flight", "ERROR: Delete failed:")

----------------------------------------------------------------------------
(* assign_pilot_to_flight *)

\* ActivePilotByLicense without AND active=1
ActivePilotByLicense_anyPilot(license_no) == {p \in pilot : p.license_no = license_no}

\* SELECT ... FROM pilot WHERE license_no=? AND active=1
ActivePilotByLicense(license_no) == {p \in pilot : p.license_no = license_no /\ p.active = 1}

\* assign_pilot_to_flight without the isdigit() check
assign_pilot_to_flight_noDigitCheck(flight_id_in, license_in, role_in) ==
    /\ pc = "menu"
    /\ LET flight_id == strip(flight_id_in)
           found == {f \in flight : IntegerEqText(f.flight_id, flight_id)}
           license_no == upper(strip(license_in))
           role == strip(role_in)
           found_pilot == ActivePilotByLicense(license_no)
       IN  IF found = {}
           THEN Report("assign_pilot_to_flight", "ERROR: No flight found with that flight_id.")
           ELSE IF found_pilot = {}
           THEN /\ last' = [op |-> "assign_pilot_to_flight", out |-> "ERROR: Pilot not found (or inactive).",
                            license_no |-> license_no]
                /\ rows' = <<>>
                /\ pc' = "handled"
                /\ UNCHANGED <<db_exists, tables>>
           ELSE
             LET row == [assignment_id |-> NextRowId(pilot_assignment, "assignment_id"),
                         flight_id |-> int(flight_id),
                         pilot_id |-> (CHOOSE p \in found_pilot : TRUE).pilot_id,
                         role |-> role]
             IN  /\ pilot_assignment' = pilot_assignment \cup {row}
                 /\ last' = [op |-> "assign_pilot_to_flight", out |-> "OK: Pilot assigned to flight.",
                             license_no |-> license_no]
                 /\ rows' = <<>>
                 /\ pc' = "handled"
                 /\ UNCHANGED <<db_exists, destination, aircraft, pilot, flight>>

assign_pilot_to_flight(flight_id_in, license_in, role_in) ==
    /\ pc = "menu"
    /\ LET flight_id == strip(flight_id_in)
           found == {f \in flight : IntegerEqText(f.flight_id, flight_id)}
           license_no == upper(strip(license_in))
           role == strip(role_in)
           found_pilot == ActivePilotByLicense(license_no)
       IN  IF ~isdigit(flight_id)
           THEN Report("assign_pilot_to_flight", "ERROR: Flight ID must be a number.")
           ELSE IF found = {}
           THEN Report("assign_pilot_to_flight", "ERROR: No flight found with that flight_id.")
           ELSE IF found_pilot = {}
           THEN /\ last' = [op |-> "assign_pilot_to_flight", out |-> "ERROR: Pilot not found (or inactive).",
                            license_no |-> license_no]
                /\ rows' = <<>>
                /\ pc' = "handled"
                /\ UNCHANGED <<db_exists, tables>>
           ELSE
             \* last also keeps the license number that was looked up
             LET row == [assignment_id |-> NextRowId(pilot_assignment, "assignment_id"),
                         flight_id |-> int(flight_id),
                         pilot_id |-> (CHOOSE p \in found_pilot : TRUE).pilot_id,
                         role |-> role]
             IN  IF AssignmentRowAccepted(row)
                 THEN /\ pilot_assignment' = pilot_assignment \cup {row}
                      /\ last' = [op |-> "assign_pilot_to_flight", out |-> "OK: Pilot assigned to flight.",
                                  license_no |-> license_no]
                      /\ rows' = <<>>
                      /\ pc' = "handled"
                      /\ UNCHANGED <<db_exists, destination, aircraft, pilot, flight>>
                 ELSE Report("assign_pilot_to_flight", "ERROR: Assignment failed:")

----------------------------------------------------------------------------
(* view_pilot_schedule, view_destinations *)

view_pilot_schedule(license_in) ==
    /\ pc = "menu"
    /\ LET license_no == upper(strip(license_in))
           joined == { j \in [p : pilot, pa : pilot_assignment, fj : FlightJoin] :
                         /\ j.pa.pilot_id = j.p.pilot_id
                         /\ j.fj.f.flight_id = j.pa.flight_id
                         /\ j.p.license_no = license_no }
           selected == { [assignment_id |-> j.pa.assignment_id, role |-> j.pa.role,
                          flight_id |-> j.fj.f.flight_id, flight_no |-> j.fj.f.flight_no,
                          origin |-> j.fj.o.iata_code, destination |-> j.fj.d.iata_code,
                          departure_dt |-> j.fj.f.departure_dt, status |-> j.fj.f.status] : j \in joined }
       IN  \E result \in OrderByText(selected, "departure_dt") : print_rows("view_pilot_schedule", result)
    /\ pc' = "handled"
    /\ UNCHANGED <<db_exists, tables>>

view_destinations ==
    /\ pc = "menu"
    /\ \E result \in OrderByText(destination, "iata_code") : print_rows("view_destinations", result)
    /\ pc' = "handled"
    /\ UNCHANGED <<db_exists, tables>>

----------------------------------------------------------------------------
(* update_destination_active *)

\* update_destination_active that does not look at cur.rowcount
update_destination_active_noRowcount(iata_in, active_in) ==
    /\ pc = "menu"
    /\ LET iata == upper(strip(iata_in))
           active == strip(active_in)
       IN  IF active \notin {<<"0">>, <<"1">>}
           THEN Report("update_destination_active", "ERROR: You must type 0 or 1.")
           ELSE /\ destination' = { IF d.iata_code = iata THEN [d EXCEPT !.active = int(active)] ELSE d
                                    : d \in destination }
                /\ last' = [op |-> "update_destination_active", out |-> "OK: Destination updated."]
                /\ rows' = <<>>
                /\ pc' = "handled"
                /\ UNCHANGED <<db_exists, aircraft, pilot, flight, pilot_assignment>>

update_destination_active(iata_in, active_in) ==
    /\ pc = "menu"
    /\ LET iata == upper(strip(iata_in))
           active == strip(active_in)
           rowcount == Cardinality({d \in destination : d.iata_code = iata})
       IN  IF active \notin {<<"0">>, <<"1">>}
           THEN Report("update_destination_active", "ERROR: You must type 0 or 1.")
           ELSE /\ destination' = { IF d.iata_code = iata THEN [d EXCEPT !.active = int(active)] ELSE d
                                    : d \in destination }
                /\ last' = [op |-> "update_destination_active",
                            out |-> IF rowcount = 0 THEN "ERROR: Destination not found."
                                    ELSE "OK: Destination updated."]
                /\ rows' = <<>>
                /\ pc' = "handled"
                /\ UNCHANGED <<db_exists, aircraft, pilot, flight, pilot_assignment>>

----------------------------------------------------------------------------
(* the two reports *)

\* ORDER BY a count DESC: every order of the rows that is descending by it
RECURSIVE OrderByCountDesc(_, _)
OrderByCountDesc(rs, col) ==
    IF rs = {} THEN {<<>>}
    ELSE UNION { { <<m>> \o rest : rest \in OrderByCountDesc(rs \ {m}, col) }
                 : m \in {x \in rs : \A y \in rs : x[col] >= y[col]} }

report_flights_per_destination ==
    /\ pc = "menu"
    /\ LET groups == { d \in destination : \E f \in flight : f.destination_id = d.destination_id }
           selected == { [destination |-> d.iata_code,
                          flights_count |-> Cardinality({f \in flight : f.destination_id = d.destination_id})]
                         : d \in groups }
       IN  \E result \in OrderByCountDesc(selected, "flights_count") :
              print_rows("report_flights_per_destination", result)
    /\ pc' = "handled"
    /\ UNCHANGED <<db_exists, tables>>

report_flights_per_pilot ==
    /\ pc = "menu"
    /\ LET groups == { p \in pilot : \E pa \in pilot_assignment : pa.pilot_id = p.pilot_id }
           selected == { [license_no |-> p.license_no,
                          flights_assigned |-> Cardinality({pa \in pilot_assignment : pa.pilot_id = p.pilot_id})]
                         : p \in groups }
       IN  \E result \in OrderByCountDesc(selected, "flights_assigned") :
              print_rows("report_flights_per_pilot", result)
    /\ pc' = "handled"
    /\ UNCHANGED <<db_exists, tables>>

----------------------------------------------------------------------------
(* What the operator types *)

DestInputs == {in_blank, in_cdg, in_lhr, in_xxx}
StatusInputs == {in_blank, in_delayed}
DateInputs == {in_spaces, DAY3, DAY4}
OriginInputs == {in_lhr, in_xxx}
AddDestInputs == {in_cdg, in_xxx}
RegInputs == {in_reg1, in_regx}
DepInputs == {in_dep_early}
NewStatusInputs == {in_blank, in_delayed}
GateInputs == {in_spaces, in_a1}
TicketInputs == {in_blank, in_minus1, in_abc}
FlightIdInputs == {in_id02, in_id3, in_idx}
ConfirmInputs == {in_yes, in_no, in_blank}
LicenseInputs == {in_lic1, in_lic3, in_licx}
RoleInputs == {Captain}
FlagInputs == {in_flag0, in_flag1, in_flag2}

ViewFlightsByDestination == \E d \in DestInputs : view_flights_by_destination(d)

ViewFlightsByDestinationAndStatus ==
    \E d \in DestInputs, s \in StatusInputs : view_flights_by_destination_and_status(d, s)

ViewFlightsByDestStatusDate ==
    \E d \in DestInputs, s \in StatusInputs, dt \in DateInputs : view_flights_by_dest_status_date(d, s, dt)

AddFlight ==
    /\ Cardinality(flight) < MaxFlights
    /\ \E o \in OriginInputs, d \in AddDestInputs, r \in RegInputs, dep \in DepInputs,
          s \in NewStatusInputs, g \in GateInputs, t \in TicketInputs :
          add_flight(in_ax999, o, d, r, dep, in_arr, s, g, t)

UpdateFlightStatus == \E id \in FlightIdInputs, s \in NewStatusInputs : update_flight_status(id, s)

DeleteFlight == \E id \in FlightIdInputs, c \in ConfirmInputs : delete_flight(id, c)

AssignPilotToFlight ==
    /\ Cardinality(pilot_assignment) < MaxAssign
    /\ \E id \in FlightIdInputs, l \in LicenseInputs, r \in RoleInputs : assign_pilot_to_flight(id, l, r)

ViewPilotSchedule == \E l \in LicenseInputs : view_pilot_schedule(l)

UpdateDestinationActive == \E i \in DestInputs, a \in FlagInputs : update_destination_active(i, a)

\* the menu loop: one choice, one handler
Next ==
    \/ Startup
    \/ MenuLoop
    \/ Exit
    \/ UnknownChoice
    \/ view_all_flights
    \/ ViewFlightsByDestination
    \/ ViewFlightsByDestinationAndStatus
    \/ ViewFlightsByDestStatusDate
    \/ AddFlight
    \/ UpdateFlightStatus
    \/ DeleteFlight
    \/ AssignPilotToFlight
    \/ ViewPilotSchedule
    \/ view_destinations
    \/ UpdateDestinationActive
    \/ report_flights_per_destination
    \/ report_flights_per_pilot

Spec == Init /\ [][Next]_vars

----------------------------------------------------------------------------
(* Properties *)

\* the IATA code of the destination row with this id
IataOf(id) == (CHOOSE d \in destination : d.destination_id = id).iata_code

\* the first ten characters of a text (all of it when it is shorter)
FirstTen(t) == [i \in 1..(IF Len(t) < 10 THEN Len(t) ELSE 10) |-> t[i]]

\* a flight meets the three criteria; a blank criterion imposes nothing
Satisfies(f, dest, status, date) ==
    /\ dest = <<>> \/ IataOf(f.destination_id) = dest
    /\ status = <<>> \/ f.status = status
    /\ date = <<>> \/ FirstTen(f.departure_dt) = date

\* the number an all-digit identifier denotes
Denotes(text, n) == isdigit(text) /\ DigitsValue(text) = n

QueryOps ==
    {"view_all_flights", "view_flights_by_destination",
     "view_flights_by_destination_and_status", "view_flights_by_dest_status_date"}

\* run_flight_query has just printed its result: rows is the result, last holds the criteria
QueryReturned == pc = "handled" /\ last.op \in QueryOps /\ last.out \in {"rows", "(no results)"}

FlightById(id) == CHOOSE f \in flight : f.flight_id = id

\* C1: run_flight_query returns exactly the flights that meet every non-blank criterion
\* (destination IATA code, status, first ten characters of departure_dt), each once and
\* with its own columns; with all three blank that is every flight; the flight departing
\* "2026-02-03 06:00" is returned for date "2026-02-03" and not for "2026-02-04".
C1_QueryReturnsExactlyTheMatching ==
    QueryReturned =>
        LET wanted == {f \in flight : Satisfies(f, last.dest, last.status, last.date)}
        IN  /\ {rows[i].flight_id : i \in DOMAIN rows} = {f.flight_id : f \in wanted}
            /\ Len(rows) = Cardinality(wanted)
            /\ \A i \in DOMAIN rows :
                  LET f == FlightById(rows[i].flight_id)
                  IN  rows[i] = [flight_id |-> f.flight_id, flight_no |-> f.flight_no,
                                 origin |-> IataOf(f.origin_id), destination |-> IataOf(f.destination_id),
                                 departure_dt |-> f.departure_dt, status |-> f.status]
            /\ (last.dest = <<>> /\ last.status = <<>> /\ last.date = <<>>)
                  => Len(rows) = Cardinality(flight)
            /\ (last.dest = <<>> /\ last.status = <<>> /\ last.date = DAY3)
                  => \A f \in flight : f.departure_dt = DEP0 => \E i \in DOMAIN rows : rows[i].flight_id = f.flight_id
            /\ (last.date = DAY4)
                  => \A i \in DOMAIN rows : rows[i].departure_dt # DEP0

\* a query by destination and date has returned some CDG flights and left out a CDG flight of another day
C1_Witness ==
    /\ QueryReturned
    /\ last.dest = CDG /\ last.date = DAY3
    /\ rows # <<>>
    /\ \E f \in flight : IataOf(f.destination_id) = CDG /\ FirstTen(f.departure_dt) # DAY3

\* the criteria with one non-blank criterion blanked out
OneCriterionLess(dest, status, date) ==
    (IF dest # <<>> THEN {<< <<>>, status, date >>} ELSE {})
    \cup (IF status # <<>> THEN {<< dest, <<>>, date >>} ELSE {})
    \cup (IF date # <<>> THEN {<< dest, status, <<>> >>} ELSE {})

\* C2: the rows run_flight_query returns are among the rows the same call returns with
\* any one of its non-blank criteria blanked out.
C2_FilterMonotonicity ==
    (QueryReturned /\ rows # <<>>) =>
        LET returned == {rows[i] : i \in DOMAIN rows}
        IN  \A c \in OneCriterionLess(last.dest, last.status, last.date) :
                \A wider \in FlightQueryResults(c[1], c[2], c[3]) :
                    returned \subseteq {wider[i] : i \in DOMAIN wider}

\* a query by destination and status has returned rows, and fewer than the destination alone returns
C2_Witness ==
    /\ QueryReturned
    /\ last.dest # <<>> /\ last.status # <<>>
    /\ rows # <<>>
    /\ \E wider \in FlightQueryResults(last.dest, <<>>, last.date) : Len(rows) < Len(wider)

\* C3: whatever the criteria, the rows run_flight_query returns are in non-decreasing
\* order of departure_dt, compared as the stored texts.
C3_OrderedByDeparture ==
    QueryReturned =>
        \A i \in DOMAIN rows : \A j \in DOMAIN rows :
            i < j => TextLeq(rows[i].departure_dt, rows[j].departure_dt)

\* a result in which a later-added flight comes before an earlier-added one
C3_Witness ==
    /\ QueryReturned
    /\ \E i \in DOMAIN rows : \E j \in DOMAIN rows :
          i < j /\ rows[i].flight_id > rows[j].flight_id /\ rows[i].departure_dt # rows[j].departure_dt

\* C4: add_flight with an origin code, destination code or registration that matches no row
\* reports the reference error and changes no table; with all three matching and the
\* insert accepted, exactly one flight row is added, with status "Scheduled", tickets
\* sold 0 and no gate where those inputs were blank.
C4_AddFlightRejection ==
    [][ (pc = "menu" /\ last'.op = "add_flight") =>
          \A o \in OriginInputs, d \in AddDestInputs, r \in RegInputs, dep \in DepInputs,
             s \in NewStatusInputs, g \in GateInputs, t \in TicketInputs :
             add_flight(in_ax999, o, d, r, dep, in_arr, s, g, t) =>
               LET resolve == /\ \E x \in destination : x.iata_code = upper(strip(o))
                              /\ \E x \in destination : x.iata_code = upper(strip(d))
                              /\ \E x \in aircraft : x.registration = upper(strip(r))
               IN  /\ ~resolve =>
                        /\ last'.out = "ERROR: origin/destination/aircraft not found in database."
                        /\ tables' = tables
                   /\ (resolve /\ last'.out = "OK: Flight added.") =>
                        /\ \E row \in flight' :
                              /\ row \notin flight
                              /\ flight' = flight \cup {row}
                              /\ strip(s) = <<>> => row.status = Scheduled
                              /\ strip(t) = <<>> => row.tickets_sold = 0
                              /\ strip(g) = <<>> => row.gate = None
                        /\ <<destination, aircraft, pilot, pilot_assignment>>'
                              = <<destination, aircraft, pilot, pilot_assignment>>
      ]_vars

\* C5: whatever the operator types, the program ends only by menu choice 0 or because the
\* database file is absent at startup.
C5_EndsOnlyByExitOrMissingDatabase ==
    pc \in {"exited", "crashed"} =>
        \/ last = [op |-> "exit", out |-> "Goodbye!"]
        \/ (~db_exists /\ last = [op |-> "main", out |-> "Database not found"])

\* C6: update_flight_status with the identifier of an existing flight and a non-blank
\* status (as read, trimmed) leaves that flight with exactly that status and every other
\* field, flight and table as it was; with a blank status it is rejected and nothing changes.
C6_StatusUpdateRoundTrip ==
    [][ (pc = "menu" /\ last'.op = "update_flight_status") =>
          \A id \in FlightIdInputs, s \in NewStatusInputs :
             update_flight_status(id, s) =>
               IF strip(s) = <<>>
               THEN tables' = tables /\ last'.out = "ERROR: status cannot be blank."
               ELSE /\ \A f \in flight :
                         IF Denotes(strip(id), f.flight_id)
                         THEN [f EXCEPT !.status = strip(s)] \in flight'
                         ELSE f \in flight'
                    /\ Cardinality(flight') = Cardinality(flight)
                    /\ <<destination, aircraft, pilot, pilot_assignment>>'
                          = <<destination, aircraft, pilot, pilot_assignment>>
      ]_vars

\* flight 2 reads back "Delayed" after an update, next to a flight with another status
C6_Witness ==
    /\ pc = "handled"
    /\ last = [op |-> "update_flight_status", out |-> "OK: Status updated."]
    /\ \E f \in flight : f.flight_id = 2 /\ f.status = Delayed
    /\ \E f \in flight : f.status # Delayed

\* C7: update_destination_active with flag "0" or "1": a code matching no destination is
\* reported not found and the table is unchanged; a code matching a destination sets the
\* active flag of that one row and reports success; any other flag is rejected and
\* nothing changes.
C7_DestinationToggle ==
    [][ (pc = "menu" /\ last'.op = "update_destination_active") =>
          \A i \in DestInputs, a \in FlagInputs :
             update_destination_active(i, a) =>
               LET code == upper(strip(i))
                   flag == strip(a)
                   hit == {d \in destination : d.iata_code = code}
               IN  /\ <<aircraft, pilot, flight, pilot_assignment>>' = <<aircraft, pilot, flight, pilot_assignment>>
                   /\ IF flag \notin {<<"0">>, <<"1">>}
                      THEN destination' = destination /\ last'.out = "ERROR: You must type 0 or 1."
                      ELSE IF hit = {}
                      THEN destination' = destination /\ last'.out = "ERROR: Destination not found."
                      ELSE /\ last'.out = "OK: Destination updated."
                           /\ Cardinality(hit) = 1
                           /\ \A d \in destination :
                                 IF d \in hit
                                 THEN [d EXCEPT !.active = IF flag = <<"1">> THEN 1 ELSE 0] \in destination'
                                 ELSE d \in destination'
                           /\ Cardinality(destination') = Cardinality(destination)
      ]_vars

\* CDG has just been switched off, and the other destinations are as seeded
C7_Witness ==
    /\ pc = "handled"
    /\ last = [op |-> "update_destination_active", out |-> "OK: Destination updated."]
    /\ \E d \in destination : d.iata_code = CDG /\ d.active = 0
    /\ \A d \in SeedDestinations : d.iata_code # CDG => d \in destination

\* C8: assign_pilot_to_flight adds a pilot_assignment row only when the identifier is
\* numeric, a flight has it, and the license number is that of a pilot with active = 1;
\* a non-numeric identifier, a missing flight, and an unknown or inactive pilot are each
\* reported by their own message and add no row.
C8_PilotAssignmentPrecondition ==
    [][ (pc = "menu" /\ last'.op = "assign_pilot_to_flight") =>
          \A id \in FlightIdInputs, l \in LicenseInputs, r \in RoleInputs :
             assign_pilot_to_flight(id, l, r) =>
               LET numeric == isdigit(strip(id))
                   target == {f \in flight : Denotes(strip(id), f.flight_id)}
                   licensed == {p \in pilot : p.license_no = upper(strip(l)) /\ p.active = 1}
               IN  /\ <<destination, aircraft, pilot, flight>>' = <<destination, aircraft, pilot, flight>>
                   /\ pilot_assignment \subseteq pilot_assignment'
                   /\ \A pa \in pilot_assignment' \ pilot_assignment :
                         /\ numeric /\ target # {} /\ licensed # {}
                         /\ \E f \in target : pa.flight_id = f.flight_id
                         /\ \E p \in licensed : pa.pilot_id = p.pilot_id
                         /\ pilot_assignment' = pilot_assignment \cup {pa}
                   /\ ~numeric =>
                         /\ last'.out = "ERROR: Flight ID must be a number."
                         /\ pilot_assignment' = pilot_assignment
                   /\ (numeric /\ target = {}) =>
                         /\ last'.out = "ERROR: No flight found with that flight_id."
                         /\ pilot_assignment' = pilot_assignment
                   /\ (numeric /\ target # {} /\ licensed = {}) =>
                         /\ last'.out = "ERROR: Pilot not found (or inactive)."
                         /\ pilot_assignment' = pilot_assignment
      ]_vars

\* the license number of an inactive pilot has just been refused
C8_Witness ==
    /\ pc = "handled"
    /\ last.op = "assign_pilot_to_flight"
    /\ last.out = "ERROR: Pilot not found (or inactive)."
    /\ \E p \in pilot : p.license_no = last.license_no /\ p.active = 0

\* C9: delete_flight removes a flight row only when the confirmation, trimmed and
\* upper-cased, is YES; any other confirmation cancels and nothing changes; when
\* confirmed, no row but the one with the given identifier is removed.
C9_DeleteRequiresConfirmation ==
    [][ (pc = "menu" /\ last'.op = "delete_flight") =>
          \A id \in FlightIdInputs, c \in ConfirmInputs :
             delete_flight(id, c) =>
               /\ flight' \subseteq flight
               /\ upper(strip(c)) # <<"Y", "E", "S">> =>
                     tables' = tables /\ last'.out = "Delete cancelled."
               /\ \A f \in flight \ flight' : Denotes(strip(id), f.flight_id)
      ]_vars

\* a confirmed delete has just removed flight 2 and no other
C9_Witness ==
    /\ pc = "handled"
    /\ last = [op |-> "delete_flight", out |-> "OK: Flight deleted."]
    /\ ~\E f \in flight : f.flight_id = 2
    /\ \E f \in flight : f.flight_id = 1

\* C10: every pilot_assignment row references a pilot whose active flag is 1.
C10_AssignedPilotsAreActive ==
    \A pa \in pilot_assignment : \E p \in pilot : p.pilot_id = pa.pilot_id /\ p.active = 1

\* the handler has just added an assignment to those of the seed
C10_Witness ==
    /\ pc = "handled"
    /\ last.op = "assign_pilot_to_flight"
    /\ last.out = "OK: Pilot assigned to flight."
    /\ pilot_assignment \ SeedAssignments(SeedPilots, SeedFlights) # {}

====
